---- MODULE Spec2Model ----
(***************************************************************************)
(* Model of the BTCPay client (src/client.go, final revision, lines        *)
(* 294-627) and of its key handling (src/crypto.go, lines 1-152).          *)
(*                                                                         *)
(* Go strings are TLA+ strings, concatenated with \o.  Cryptographic       *)
(* primitives are symbolic terms (sha256(x) is the string "sha256(x)").    *)
(* A JSON text is carried together with the JSON value it denotes, so      *)
(* that json.Unmarshal of a text just produced by json.Marshal is the      *)
(* value that was rendered.                                                *)
(***************************************************************************)
EXTENDS Integers, Sequences, FiniteSets, TLC

VARIABLES
    header,     \* Client.header   (src/client.go:313)
    host,       \* Client.host     (src/client.go:314)
    pem,        \* Client.pem      (src/client.go:315)
    clientID,   \* Client.clientID (src/client.go:316)
    token,      \* Client.token    (src/client.go:317)
    call,       \* the last operation called on the client and its arguments
    req,        \* the request the last operation handed to hc.Do, if any
    ret,        \* what the last operation returned
    snd,        \* a goroutine inside Client.send: its position and locals
    par,        \* a goroutine inside Client.pair: its position and locals
    kst,        \* a PEM string and what the key functions made of it
    prs         \* goroutines inside Client.pair at once and the words of c.token

vars == <<header, host, pem, clientID, token, call, req, ret, snd, par, kst, prs>>

(***************************************************************************)
(* Bounds of the model.                                                    *)
(***************************************************************************)
\* longest sequence of url.Values.Add calls a caller makes before send
MaxParams == 2

\* the number of points of the curve of the model; scalars of one and of two
\* bytes are below it
CurveOrder == 259

(***************************************************************************)
(* Generic helpers.                                                        *)
(***************************************************************************)
RECURSIVE Join(_, _)
\* strings.Join: the elements of ss separated by sep
Join(ss, sep) ==
    IF ss = <<>> THEN ""
    ELSE IF Len(ss) = 1 THEN ss[1]
    ELSE ss[1] \o sep \o Join(Tail(ss), sep)

\* Byte-wise order of the strings the model sorts (sort.Strings).
ByteOrder ==
    <<"buyer", "currency", "email", "id", "name", "orderId", "pairingCode",
      "price", "q1", "q2", "token">>

\* sort.Strings over a set of keys
SortedKeys(S) == SelectSeq(ByteOrder, LAMBDA k : k \in S)

(***************************************************************************)
(* Errors.  A Go error is its dynamic type and its message.                *)
(***************************************************************************)
NoErr == [type |-> "nil", msg |-> ""]

Err(t, m) == [type |-> t, msg |-> m]

(***************************************************************************)
(* JSON values and their text (encoding/json).                             *)
(***************************************************************************)
JStr(s) == [kind |-> "string", str |-> s, elems |-> <<>>]

JNum(s) == [kind |-> "number", str |-> s, elems |-> <<>>]

\* fs: the members in the order of the text, each [k |-> name, v |-> value]
JObj(fs) == [kind |-> "object", str |-> "", elems |-> fs]

JArr(items) == [kind |-> "array", str |-> "", elems |-> items]

\* a text that is not JSON (truncated, as `[` or `{"error":"x"`)
JBad == [kind |-> "malformed", str |-> "", elems |-> <<>>]

\* the empty response body
JEmpty == [kind |-> "empty", str |-> "", elems |-> <<>>]

Quote(s) == "\"" \o s \o "\""

RECURSIVE Text(_)
\* the bytes of a JSON value, compact, as json.Marshal writes them
Text(j) ==
    CASE j.kind = "string" -> Quote(j.str)
      [] j.kind = "number" -> j.str
      [] j.kind = "object" ->
            "{" \o Join([i \in DOMAIN j.elems |->
                            Quote(j.elems[i].k) \o ":" \o Text(j.elems[i].v)], ",")
                \o "}"
      [] j.kind = "array" ->
            "[" \o Join([i \in DOMAIN j.elems |-> Text(j.elems[i])], ",") \o "]"
      [] j.kind = "malformed" -> "{"
      [] OTHER -> ""

\* the names of the members of a JSON object
Keys(j) == {j.elems[i].k : i \in DOMAIN j.elems}

\* the member named k of a JSON object: the last one of that name wins
Member(j, k) ==
    LET idx == {i \in DOMAIN j.elems : j.elems[i].k = k}
        last == CHOOSE i \in idx : \A o \in idx : o <= i
    IN  j.elems[last].v

(***************************************************************************)
(* Go values handed to json.Marshal as a payload.                          *)
(***************************************************************************)
GoNil == [t |-> "nil", s |-> "", fs |-> <<>>]

GoString(s) == [t |-> "string", s |-> s, fs |-> <<>>]

GoInt(s) == [t |-> "int", s |-> s, fs |-> <<>>]

GoFunc == [t |-> "func", s |-> "", fs |-> <<>>]

\* fs: the exported fields in declaration order,
\* each [k |-> json name, v |-> Go value, omitempty |-> BOOLEAN]
GoStruct(fs) == [t |-> "struct", s |-> "", fs |-> fs]

Field(k, v, o) == [k |-> k, v |-> v, omitempty |-> o]

\* encoding/json isEmptyValue: a struct is never empty
IsEmptyValue(v) == v.t = "string" /\ v.s = ""

RECURSIVE Encode(_)
\* the JSON value json.Marshal writes for a Go value that it supports
Encode(v) ==
    CASE v.t = "string" -> JStr(v.s)
      [] v.t = "int" -> JNum(v.s)
      [] v.t = "struct" ->
            LET kept == SelectSeq(v.fs,
                            LAMBDA f : ~(f.omitempty /\ IsEmptyValue(f.v)))
            IN  JObj([i \in DOMAIN kept |->
                        [k |-> kept[i].k, v |-> Encode(kept[i].v)]])
      [] OTHER -> JBad

\* a value json.Marshal wrote, with its bytes
marshalled(j) == [err |-> NoErr, j |-> j, d |-> Text(j)]

\* json.Marshal(v): the error, the value written and its bytes
jsonMarshal(v) ==
    IF v.t = "func"
    THEN [err |-> Err("json.UnsupportedTypeError", "json: unsupported type: func()"),
          j |-> JBad, d |-> ""]
    ELSE marshalled(Encode(v))

RECURSIVE MapOrder(_)
\* json.Marshal of what json.Unmarshal decoded into map[string]interface{}:
\* members sorted by key at every level, one member per key
MapOrder(j) ==
    IF j.kind = "object"
    THEN LET ks == SortedKeys(Keys(j))
         IN  JObj([i \in DOMAIN ks |-> [k |-> ks[i], v |-> MapOrder(Member(j, ks[i]))]])
    ELSE IF j.kind = "array"
    THEN JArr([i \in DOMAIN j.elems |-> MapOrder(j.elems[i])])
    ELSE j

\* json.Unmarshal(d, &m) with m a map[string]interface{}
jsonUnmarshalMap(j) ==
    IF j.kind = "object"
    THEN [err |-> NoErr, m |-> [k \in Keys(j) |-> Member(j, k)]]
    ELSE [err |-> Err("json.UnmarshalTypeError",
                      "json: cannot unmarshal " \o j.kind
                          \o " into Go value of type map[string]interface {}"),
          m |-> <<>>]

\* json.Marshal(m) of a map[string]interface{}
jsonMarshalMap(m) ==
    LET ks == SortedKeys(DOMAIN m)
    IN  JObj([i \in DOMAIN ks |-> [k |-> ks[i], v |-> MapOrder(m[ks[i]])]])

(***************************************************************************)
(* Keys (src/crypto.go).  The curve is a cyclic group of CurveOrder        *)
(* points; the point k*G is written as the number k, 0 being the point at  *)
(* infinity.  A PEM string is what its decoding finds in it: whether it    *)
(* is the empty string, whether pem.Decode finds a block, and the DER      *)
(* bytes of the block as the ASN.1 value they encode.                      *)
(***************************************************************************)
RECURSIVE Bytes(_)
\* big.Int.Bytes: the big-endian bytes of n, none for 0
Bytes(n) == IF n = 0 THEN <<>> ELSE Append(Bytes(n \div 256), n % 256)

RECURSIVE SetBytes(_)
\* big.Int.SetBytes: the number of the big-endian bytes bs
SetBytes(bs) ==
    IF bs = <<>> THEN 0
    ELSE SetBytes(SubSeq(bs, 1, Len(bs) - 1)) * 256 + bs[Len(bs)]

\* curve.ScalarBaseMult: the multiple of the base point by the scalar in bs
ScalarBaseMult(bs) == SetBytes(bs) % CurveOrder

\* btcec.NewPrivateKey having drawn the scalar d: the public point is d*G
NewPrivateKey(d) == [D |-> d, P |-> d % CurveOrder]

\* line 139 gone wrong: the scalar read least significant byte first
PrivKeyFromBytesReversed(bs) ==
    LET rev == [i \in DOMAIN bs |-> bs[Len(bs) + 1 - i]]
    IN  [D |-> SetBytes(rev), P |-> ScalarBaseMult(rev)]

\* btcec.PrivKeyFromBytes (line 139): it returns a key for any bytes
PrivKeyFromBytes(bs) == [D |-> SetBytes(bs), P |-> ScalarBaseMult(bs)]

\* elliptic.Marshal: the uncompressed form of the public point
Marshal(pk) == "04point" \o ToString(pk.P)

\* the ASN.1 sequence ecPrivateKey (lines 38-43)
ecPrivateKey(version, priv, oid, pub) ==
    [shape |-> "ecPrivateKey", Version |-> version, PrivateKey |-> priv,
     NamedCurveOID |-> oid, PublicKey |-> pub]

\* DER bytes that are not an ecPrivateKey sequence
NotEcPrivateKey ==
    [shape |-> "other", Version |-> 0, PrivateKey |-> <<>>, NamedCurveOID |-> "",
     PublicKey |-> ""]

\* pem.EncodeToMemory of a block
Block(type, der) == [empty |-> FALSE, block |-> TRUE, type |-> type, der |-> der]

\* lines 50-58: the DER bytes GeneratePEM writes for the key priv
derOf(priv) == ecPrivateKey(1, Bytes(priv.D), "1.3.132.0.10", Marshal(priv))

\* a PEM string handed in from outside: with or without a PEM block, the
\* block an ecPrivateKey sequence with the scalar d or not
PEM(block, asn1, d) ==
    [empty |-> FALSE, block |-> block, type |-> "EC PRIVATE KEY",
     der |-> IF block /\ asn1 THEN derOf([D |-> d, P |-> d % CurveOrder])
             ELSE NotEcPrivateKey]

EmptyPEM == [empty |-> TRUE, block |-> FALSE, type |-> "", der |-> NotEcPrivateKey]

NoKey == [D |-> 0, P |-> 0]

\* privKey (src/crypto.go:127-142)
privKey(pm) ==
    IF ~pm.block
    THEN [err |-> Err("errors.errorString", "private key not found"), pk |-> NoKey]
    ELSE IF pm.der.shape # "ecPrivateKey"
    THEN [err |-> Err("asn1.StructuralError", "asn1: structure error"), pk |-> NoKey]
    ELSE [err |-> NoErr, pk |-> PrivKeyFromBytes(pm.der.PrivateKey)]

\* hex of PublicKey.SerializeCompressed of the public point of the key
SerializeCompressed(pk) == "pub" \o ToString(pk.P)

\* lines 146-151 of pubKey, r being what privKey returned
pubKeyOf(r) ==
    IF r.err # NoErr THEN [err |-> r.err, pub |-> ""]
    ELSE [err |-> NoErr, pub |-> SerializeCompressed(r.pk)]

\* pubKey (src/crypto.go:145-152)
pubKey(pm) == pubKeyOf(privKey(pm))

\* hexHash (src/crypto.go:113-124), the digest a symbolic term
hexHash(hash, v) == hash \o "(" \o v \o ")"

\* lines 20-34 of sign, r being what privKey returned
signWith(r, v) ==
    IF r.err # NoErr THEN [err |-> r.err, sig |-> ""]
    ELSE [err |-> NoErr,
          sig |-> "sig(" \o ToString(r.pk.D) \o "," \o hexHash("sha256", v) \o ")"]

\* sign (src/crypto.go:18-35): the signature of sha256(v) under the key of pm
sign(pm, v) == signWith(privKey(pm), v)

\* lines 77-108 gone wrong: RIPEMD160 left out
sinOfNoRipemd(pub) ==
    LET hx1 == hexHash("sha256", pub)
        sinHeader == "0F02" \o hx1
        hx3 == hexHash("sha256", sinHeader)
        hx4 == hexHash("sha256", hx3)
        checksum == "first8(" \o hx4 \o ")"
    IN  "base58(" \o sinHeader \o checksum \o ")"

\* lines 77-108 of generateSIN: the SIN of the compressed public key pub
sinOf(pub) ==
    LET hx1 == hexHash("sha256", pub)
        hx2 == hexHash("ripemd160", hx1)
        sinHeader == "0F02" \o hx2
        hx3 == hexHash("sha256", sinHeader)
        hx4 == hexHash("sha256", hx3)
        checksum == "first8(" \o hx4 \o ")"
    IN  "base58(" \o sinHeader \o checksum \o ")"

\* lines 73-108 of generateSIN, r being what privKey returned
generateSINOf(r) ==
    IF r.err # NoErr THEN [err |-> r.err, sin |-> ""]
    ELSE [err |-> NoErr, sin |-> sinOf(SerializeCompressed(r.pk))]

\* generateSIN (src/crypto.go:71-109)
generateSIN(pm) == generateSINOf(privKey(pm))

\* the scalars btcec.NewPrivateKey can draw
GenScalars == 1..(CurveOrder - 1)

\* GeneratePEM (src/crypto.go:46-68) for the scalar d it drew
GeneratePEM(d) == Block("EC PRIVATE KEY", derOf(NewPrivateKey(d)))

(***************************************************************************)
(* url.Values and the request URL (net/url).                               *)
(***************************************************************************)
\* url.QueryEscape on the strings of the model: a space becomes '+'
QueryEscape(s) == IF s = "a b" THEN "a+b" ELSE s

\* url.Values built by the caller's Add calls, in order: key -> its values
Values(adds) ==
    [k \in {adds[i].k : i \in DOMAIN adds} |->
        LET mine == SelectSeq(adds, LAMBDA a : a.k = k)
        IN  [i \in DOMAIN mine |-> mine[i].v]]

\* url.Values.Encode gone wrong: the keys written unsorted, here descending
ValuesEncodeUnsorted(v) ==
    LET up == SortedKeys(DOMAIN v)
        ks == [i \in DOMAIN up |-> up[Len(up) + 1 - i]]
        one(k) == Join([i \in DOMAIN v[k] |->
                            QueryEscape(k) \o "=" \o QueryEscape(v[k][i])], "&")
    IN  Join([i \in DOMAIN ks |-> one(ks[i])], "&")

\* url.Values.Encode: "k=v" pairs joined by '&', sorted by key
ValuesEncode(v) ==
    LET ks == SortedKeys(DOMAIN v)
        one(k) == Join([i \in DOMAIN v[k] |->
                            QueryEscape(k) \o "=" \o QueryEscape(v[k][i])], "&")
    IN  Join([i \in DOMAIN ks |-> one(ks[i])], "&")

\* net/http validMethod on the methods of the model
ValidMethod(m) == m \in {"GET", "POST"}

\* URL.String() of the URL parsed from base with RawQuery set to q
URLString(base, q) == IF q = "" THEN base ELSE base \o "?" \o q

(***************************************************************************)
(* Client.send (src/client.go:402-493).                                    *)
(***************************************************************************)
NoBody == [err |-> NoErr, body |-> "", j |-> JEmpty]

BodyErr(e) == [err |-> e, body |-> "", j |-> JEmpty]

BodyOf(j) == [err |-> NoErr, body |-> Text(j), j |-> j]

\* line 420 gone wrong: the token set only when the payload defines none
setTokenIfAbsent(m, tok) ==
    [k \in DOMAIN m \cup {"token"} |-> IF k \in DOMAIN m THEN m[k] ELSE JStr(tok)]

\* line 420: m["token"] = c.token
setToken(m, tok) ==
    [k \in DOMAIN m \cup {"token"} |-> IF k = "token" THEN JStr(tok) ELSE m[k]]

\* lines 416-426: u is what json.Unmarshal into the map returned
mergeToken(tok, u) ==
    IF u.err # NoErr THEN BodyErr(u.err)
    ELSE BodyOf(jsonMarshalMap(setToken(u.m, tok)))

\* lines 410-429: d is what json.Marshal of the payload returned
bodyFrom(tok, d) ==
    IF d.err # NoErr THEN BodyErr(d.err)
    ELSE IF tok # "" THEN mergeToken(tok, jsonUnmarshalMap(d.j))
    ELSE [err |-> NoErr, body |-> d.d, j |-> d.j]

\* lines 408-429: the body, from the payload and the token
sendBody(tok, payload) ==
    IF payload = GoNil THEN NoBody ELSE bodyFrom(tok, jsonMarshal(payload))

\* lines 430-435 gone wrong: the token written to the query also when there
\* is a payload, as the first revision did (src/client.go:92-95)
queryTokenAlways(tok, payload) == IF tok # "" THEN "token=" \o tok ELSE ""

\* lines 430-435: what the query holds before the parameters
queryToken(tok, payload) ==
    IF payload = GoNil /\ tok # "" THEN "token=" \o tok ELSE ""

\* lines 437-443 gone wrong: no '&' between the token and the parameters
queryParamsNoSep(q0, params) ==
    IF Cardinality(DOMAIN params) > 0 THEN q0 \o ValuesEncode(params) ELSE q0

\* lines 437-443: the parameters appended to the query q0
queryParams(q0, params) ==
    IF Cardinality(DOMAIN params) > 0
    THEN (IF Len(q0) > 0 THEN q0 \o "&" ELSE q0) \o ValuesEncode(params)
    ELSE q0

\* lines 430-443: the query string, from the token and the parameters
sendQuery(tok, payload, params) == queryParams(queryToken(tok, payload), params)

\* line 464 gone wrong: the URL signed without its query string, as the first
\* revision did (src/client.go:137)
signedStringNoQuery(base, query, body) == base \o body

\* line 464: the string handed to sign, from the request's URL and the body
signedString(base, query, body) == URLString(base, query) \o body

\* lines 462-469: the two headers set, pub the public key, sg the signature of v
setSigHeader(hdr, pub, sg, v) ==
    IF pub.err # NoErr THEN [err |-> pub.err, header |-> hdr, signed |-> ""]
    ELSE IF sg.err # NoErr THEN [err |-> sg.err, header |-> hdr, signed |-> ""]
    ELSE [err |-> NoErr,
          header |-> [h \in DOMAIN hdr \cup {"X-Identity", "X-Signature"} |->
                        CASE h = "X-Identity" -> pub.pub
                          [] h = "X-Signature" -> sg.sig
                          [] OTHER -> hdr[h]],
          signed |-> v]

\* lines 457-469: the request signed over the string v
signHeader(hdr, pm, v) == setSigHeader(hdr, pubKey(pm), sign(pm, v), v)

\* lines 452-470 gone wrong: the request signed whatever the flag
sendHeaderAlways(hdr, pm, sig, base, query, body) ==
    signHeader(hdr, pm, signedString(base, query, body))

\* lines 452-470: the headers of the request, and the string that was signed
sendHeader(hdr, pm, sig, base, query, body) ==
    IF ~sig THEN [err |-> NoErr, header |-> hdr, signed |-> ""]
    ELSE signHeader(hdr, pm, signedString(base, query, body))

NoReq ==
    [method |-> "", base |-> "", RawQuery |-> "", url |-> "", body |-> "",
     j |-> JEmpty, header |-> <<>>, signed |-> ""]

NoResp == [status |-> 0, body |-> JEmpty]

\* what http.Client.Do returns: a transport error, or a status and a body
RoundTripErr == [ok |-> FALSE, status |-> 0, body |-> JEmpty]

Response(status, body) == [ok |-> TRUE, status |-> status, body |-> body]

\* json.Decoder.Decode failing on a text that is not one JSON value
syntaxErr(j) ==
    IF j.kind = "empty" THEN Err("errors.errorString", "EOF")
    ELSE Err("errors.errorString", "unexpected EOF")

typeErr(j, into) ==
    Err("json.UnmarshalTypeError",
        "json: cannot unmarshal " \o j.kind \o " into Go value of type " \o into)

\* the string member named k of an object, "" when it has none
StringMember(j, k) == IF k \in Keys(j) THEN Member(j, k).str ELSE ""

\* lines 480-487: Decode into struct{ Error string `json:"error"` }
decodeError(j) ==
    CASE j.kind \in {"malformed", "empty"} -> [err |-> syntaxErr(j), Error |-> ""]
      [] j.kind = "object" /\ "error" \in Keys(j) /\ Member(j, "error").kind # "string" ->
            [err |-> typeErr(Member(j, "error"), "string"), Error |-> ""]
      [] j.kind = "object" -> [err |-> NoErr, Error |-> StringMember(j, "error")]
      [] OTHER -> [err |-> typeErr(j, "struct"), Error |-> ""]

\* the http.Method as url.Error prints it
OpOf(method) == IF method = "GET" THEN "Get" ELSE "Post"

\* lines 484-489: the error for status, rerr being what Decode returned
statusError(status, rerr) ==
    IF rerr.err # NoErr THEN rerr.err
    ELSE Err("errors.errorString", "[" \o ToString(status) \o "] " \o rerr.Error)

\* line 477 gone wrong: status 400 taken for a success
classifyAbove400(rt, method, url) ==
    IF ~rt.ok
    THEN [resp |-> NoResp,
          err |-> Err("url.Error", OpOf(method) \o " " \o Quote(url) \o ": round trip failed")]
    ELSE IF rt.status > 400
    THEN [resp |-> NoResp, err |-> statusError(rt.status, decodeError(rt.body))]
    ELSE [resp |-> [status |-> rt.status, body |-> rt.body], err |-> NoErr]

\* lines 472-492: the outcome of the round trip rt for the request to url
classify(rt, method, url) ==
    IF ~rt.ok
    THEN [resp |-> NoResp,
          err |-> Err("url.Error", OpOf(method) \o " " \o Quote(url) \o ": round trip failed")]
    ELSE IF rt.status >= 400
    THEN [resp |-> NoResp, err |-> statusError(rt.status, decodeError(rt.body))]
    ELSE [resp |-> [status |-> rt.status, body |-> rt.body], err |-> NoErr]

\* send returning before the transport is reached
sendFail(e) == [req |-> NoReq, sent |-> 0, resp |-> NoResp, err |-> e]

\* lines 472-475 gone wrong: a failed request handed to hc.Do a second time
sendDoneRetry(r, c) ==
    [req |-> r, sent |-> IF c.err # NoErr THEN 2 ELSE 1, resp |-> c.resp, err |-> c.err]

\* lines 472-492: the request r was handed to hc.Do, c is its outcome
sendDone(r, c) == [req |-> r, sent |-> 1, resp |-> c.resp, err |-> c.err]

\* lines 445-450: the request built by http.NewRequestWithContext
Request(method, base, query, b, h) ==
    [method |-> method, base |-> base, RawQuery |-> query,
     url |-> URLString(base, query), body |-> b.body, j |-> b.j,
     header |-> h.header, signed |-> h.signed]

\* lines 456-470 gone wrong: the request sent although signing failed
sendSignedAnyway(method, base, query, b, h, rt) ==
    sendDone(Request(method, base, query, b, h),
             classify(rt, method, URLString(base, query)))

\* lines 456-492: h is what setting the headers returned
sendSigned(method, base, query, b, h, rt) ==
    IF h.err # NoErr THEN sendFail(h.err)
    ELSE sendDone(Request(method, base, query, b, h),
                  classify(rt, method, URLString(base, query)))

\* lines 408-492: b is the body built, query the query string built
sendBuilt(hdr, pm, method, base, sig, b, query, rt) ==
    IF b.err # NoErr THEN sendFail(b.err)
    ELSE IF ~ValidMethod(method)
    THEN sendFail(Err("errors.errorString", "net/http: invalid method " \o Quote(method)))
    ELSE sendSigned(method, base, query, b,
                    sendHeader(hdr, pm, sig, base, query, b.body), rt)

\* Client.send of a client with header hdr, host hst, PEM pm and token tok;
\* rt is what the transport answers if the request reaches it
send(hdr, hst, pm, tok, method, endpoint, params, payload, sig, rt) ==
    sendBuilt(hdr, pm, method, hst \o endpoint, sig, sendBody(tok, payload),
              sendQuery(tok, payload, params), rt)

(***************************************************************************)
(* Client.pair (src/client.go:496-527).                                    *)
(***************************************************************************)
\* lines 497-503: the pairing data
pairData(id, code) ==
    GoStruct(<<Field("id", GoString(id), FALSE),
               Field("pairingCode", GoString(code), FALSE)>>)

\* line 505 gone wrong: the pairing request signed
pairSigTrue == TRUE

\* line 505: the signature flag of the pairing request
pairSig == FALSE

\* lines 512-518: Decode into []struct{ Token string `json:"token"` }
decodeTokens(j) ==
    CASE j.kind \in {"malformed", "empty"} -> [err |-> syntaxErr(j), tokens |-> <<>>]
      [] j.kind = "array" ->
            IF \E i \in DOMAIN j.elems : j.elems[i].kind # "object"
            THEN [err |-> typeErr(JStr(""), "struct"), tokens |-> <<>>]
            ELSE [err |-> NoErr,
                  tokens |-> [i \in DOMAIN j.elems |->
                                [Token |-> StringMember(j.elems[i], "token")]]]
      [] OTHER -> [err |-> typeErr(j, "[]struct"), tokens |-> <<>>]

\* line 524 gone wrong: the last record taken
pairTokenLast(tokens) == tokens[Len(tokens)].Token

\* line 524: the token pair installs, from the decoded records
pairToken(tokens) == tokens[1].Token

\* lines 516-526 gone wrong: an empty array reported as a decode failure
pairInstallAsDecodeError(tok, t) ==
    IF t.err # NoErr THEN [err |-> t.err, token |-> tok]
    ELSE IF Len(t.tokens) = 0
    THEN [err |-> Err("errors.errorString", "unexpected EOF"), token |-> tok]
    ELSE [err |-> NoErr, token |-> pairToken(t.tokens)]

\* lines 516-526 gone wrong: the token cleared when no record is returned
pairInstallClears(tok, t) ==
    IF t.err # NoErr THEN [err |-> t.err, token |-> tok]
    ELSE IF Len(t.tokens) = 0
    THEN [err |-> Err("errors.errorString", "token data not returned"), token |-> ""]
    ELSE [err |-> NoErr, token |-> pairToken(t.tokens)]

\* lines 516-526: the error returned and the client's token afterwards, tok
\* being the token before and t what Decode returned
pairInstall(tok, t) ==
    IF t.err # NoErr THEN [err |-> t.err, token |-> tok]
    ELSE IF Len(t.tokens) = 0
    THEN [err |-> Err("errors.errorString", "token data not returned"), token |-> tok]
    ELSE [err |-> NoErr, token |-> pairToken(t.tokens)]

\* lines 510-526: send returned s without an error, i is what installing did
pairDone(s, i) == [req |-> s.req, sent |-> s.sent, err |-> i.err, token |-> i.token]

\* lines 505-508 gone wrong: the token dropped when the request fails
pairAfterClears(tok, s) ==
    IF s.err # NoErr
    THEN [req |-> s.req, sent |-> s.sent, err |-> s.err, token |-> ""]
    ELSE pairDone(s, pairInstall(tok, decodeTokens(s.resp.body)))

\* lines 505-526: s is what send returned
pairAfter(tok, s) ==
    IF s.err # NoErr
    THEN [req |-> s.req, sent |-> s.sent, err |-> s.err, token |-> tok]
    ELSE pairDone(s, pairInstall(tok, decodeTokens(s.resp.body)))

\* Client.pair: what send did, the error returned and the token afterwards
pair(hdr, hst, pm, id, tok, code, rt) ==
    pairAfter(tok, send(hdr, hst, pm, tok, "POST", "/tokens", <<>>,
                        pairData(id, code), pairSig, rt))

(***************************************************************************)
(* Client.CreateInvoice and Client.Invoice (src/client.go:590-627).        *)
(***************************************************************************)
\* CreateInvoiceParams (src/client.go:531-561) with the given Currency and
\* OrderID and every other field zero; a decimal.Decimal is written quoted
CreateInvoiceParams(currency, orderID) ==
    GoStruct(<<Field("currency", GoString(currency), FALSE),
               Field("price", GoString("0"), FALSE),
               Field("orderId", GoString(orderID), TRUE),
               Field("buyer", GoStruct(<<Field("name", GoString(""), TRUE),
                                         Field("email", GoString(""), TRUE)>>), FALSE)>>)

NoInvoice == [ID |-> "", Currency |-> ""]

\* the Invoice decoded from the object data
invoiceOf(data) ==
    [ID |-> StringMember(data, "id"), Currency |-> StringMember(data, "currency")]

\* lines 598-604: Decode into struct{ Data Invoice `json:"data"` }
decodeInvoice(j) ==
    CASE j.kind \in {"malformed", "empty"} -> [err |-> syntaxErr(j), inv |-> NoInvoice]
      [] j.kind = "object" /\ "data" \notin Keys(j) -> [err |-> NoErr, inv |-> NoInvoice]
      [] j.kind = "object" /\ Member(j, "data").kind = "object" ->
            [err |-> NoErr, inv |-> invoiceOf(Member(j, "data"))]
      [] j.kind = "object" -> [err |-> typeErr(Member(j, "data"), "Invoice"), inv |-> NoInvoice]
      [] OTHER -> [err |-> typeErr(j, "struct"), inv |-> NoInvoice]

\* line 591: the signature flag of the invoice creation request
createInvoiceSig == TRUE

\* line 611: the signature flag of the invoice retrieval request
invoiceSig == TRUE

\* lines 602-606: send returned s without an error, d is what Decode returned
invoiceDone(s, d) ==
    [req |-> s.req, sent |-> s.sent, err |-> d.err,
     inv |-> IF d.err # NoErr THEN NoInvoice ELSE d.inv]

\* lines 592-606 and 612-626: s is what send returned
invoiceAfter(s) ==
    IF s.err # NoErr
    THEN [req |-> s.req, sent |-> s.sent, err |-> s.err, inv |-> NoInvoice]
    ELSE invoiceDone(s, decodeInvoice(s.resp.body))

\* Client.CreateInvoice (src/client.go:590-607)
CreateInvoice(hdr, hst, pm, tok, p, rt) ==
    invoiceAfter(send(hdr, hst, pm, tok, "POST", "/invoices", <<>>, p,
                      createInvoiceSig, rt))

\* Client.Invoice (src/client.go:610-627)
Invoice(hdr, hst, pm, tok, id, rt) ==
    invoiceAfter(send(hdr, hst, pm, tok, "GET", "/invoices/" \o id, <<>>, GoNil,
                      invoiceSig, rt))

(***************************************************************************)
(* NewClient (src/client.go:345-379).                                      *)
(***************************************************************************)
\* lines 350-355: the fixed headers
DefaultHeader ==
    [h \in {"Content-Type", "Accept", "X-Accept-Version", "User-Agent"} |->
        CASE h = "Content-Type" -> "application/json"
          [] h = "Accept" -> "application/json"
          [] h = "X-Accept-Version" -> "2.0.0"
          [] OTHER -> "btcpay-go"]

\* WithUserAgent (src/client.go:330-334); ua = "" stands for the setter not given
WithUserAgent(hdr, ua) ==
    IF ua = "" THEN hdr ELSE [hdr EXCEPT !["User-Agent"] = ua]

\* lines 364-378 gone wrong: the PEM string of WithPEM dropped for a generated
\* one after the SIN was derived
newClientWithFreshPEM(hst, tok, ua, p, sin) ==
    [err |-> sin.err,
     c |-> [header |-> WithUserAgent(DefaultHeader, ua), host |-> hst,
            pem |-> GeneratePEM(1), clientID |-> sin.sin, token |-> tok]]

\* lines 373-378: the client with PEM p, sin being what generateSIN returned
newClientWith(hst, tok, ua, p, sin) ==
    [err |-> sin.err,
     c |-> [header |-> WithUserAgent(DefaultHeader, ua), host |-> hst,
            pem |-> p, clientID |-> sin.sin, token |-> tok]]

\* lines 366-378: p is the client's PEM
newClientPEM(hst, tok, ua, p) == newClientWith(hst, tok, ua, p, generateSIN(p))

\* NewClient(hst, tok, WithUserAgent(ua), WithPEM(pm)); pm = EmptyPEM stands
\* for WithPEM not given, d is the scalar GeneratePEM draws
NewClient(hst, tok, ua, pm, d) ==
    newClientPEM(hst, tok, ua, IF pm.empty THEN GeneratePEM(d) ELSE pm)

(***************************************************************************)
(* NewPairedClient (src/client.go:381-394).                                *)
(***************************************************************************)
\* the nil *Client
NilClient ==
    [nil |-> TRUE, header |-> <<>>, host |-> "", pem |-> EmptyPEM, clientID |-> "",
     token |-> ""]

\* the client c as a non-nil *Client whose token is tok
PointerTo(c, tok) ==
    [nil |-> FALSE, header |-> c.header, host |-> c.host, pem |-> c.pem,
     clientID |-> c.clientID, token |-> tok]

\* lines 388-393 gone wrong: the client returned although pairing failed
pairedDoneKeepsClient(c, p) ==
    [err |-> p.err, c |-> PointerTo(c, p.token), req |-> p.req, sent |-> p.sent]

\* lines 388-393: p is what pair returned on the client c
pairedDone(c, p) ==
    IF p.err # NoErr
    THEN [err |-> p.err, c |-> NilClient, req |-> p.req, sent |-> p.sent]
    ELSE [err |-> NoErr, c |-> PointerTo(c, p.token), req |-> p.req, sent |-> p.sent]

\* lines 383-393: n is what NewClient returned
pairedWith(n, code, rt) ==
    IF n.err # NoErr
    THEN [err |-> n.err, c |-> NilClient, req |-> NoReq, sent |-> 0]
    ELSE pairedDone(n.c, pair(n.c.header, n.c.host, n.c.pem, n.c.clientID, n.c.token,
                              code, rt))

\* NewPairedClient(hst, code, WithUserAgent(ua), WithPEM(pm)); d is the scalar
\* GeneratePEM draws and rt what the transport answers
NewPairedClient(hst, code, ua, pm, d, rt) ==
    pairedWith(NewClient(hst, "", ua, pm, d), code, rt)

(***************************************************************************)
(* The inputs of the model.                                                *)
(***************************************************************************)
\* the scalar GeneratePEM draws for the client of the model
InitScalars == {1}

\* tokens handed to NewClient; "" is no token
InitTokens == {"", "123"}

\* user agents handed to WithUserAgent; "" is the setter not given
UserAgents == {"", "my-agent"}

\* PEM strings handed to WithPEM: none, a well-formed one, one without a PEM
\* block, one whose block is not the expected ASN.1 sequence
PEMs == {EmptyPEM, PEM(TRUE, TRUE, 2), PEM(FALSE, FALSE, 0), PEM(TRUE, FALSE, 0)}

Add(k, v) == [k |-> k, v |-> v]

\* the url.Values.Add calls a caller can make
ParamPairs == {Add("q1", "v1"), Add("q2", "v2"), Add("q2", "a b"), Add("q1", "v2")}

RECURSIVE SeqsUpTo(_, _)
\* the sequences over S of length at most n
SeqsUpTo(S, n) ==
    IF n = 0 THEN {<<>>}
    ELSE LET shorter == SeqsUpTo(S, n - 1)
         IN  shorter \cup {Append(q, x) : q \in {t \in shorter : Len(t) = n - 1}, x \in S}

AddSeqs == SeqsUpTo(ParamPairs, MaxParams)

\* a payload that defines its own token member
OwnTokenPayload ==
    GoStruct(<<Field("token", GoString("own"), FALSE),
               Field("currency", GoString("USD"), FALSE)>>)

\* payloads handed to send directly
Payloads ==
    {GoNil, CreateInvoiceParams("USD", ""), OwnTokenPayload, GoInt("123"), GoFunc}

Methods == {"POST", "[[123"}

TokenRecord(t) == JObj(<<[k |-> "token", v |-> JStr(t)]>>)

\* response bodies: `[`, `[]`, `[{"token":"tok123"}]`,
\* `[{"token":"tokA"},{"token":"tokB"}]`, `[{}]`, `{"error":"unauthorized123"}`,
\* `{"data":{"id":"12345","currency":"USD"}}`
Bodies ==
    {JBad,
     JArr(<<>>),
     JArr(<<TokenRecord("tok123")>>),
     JArr(<<TokenRecord("tokA"), TokenRecord("tokB")>>),
     JArr(<<JObj(<<>>)>>),
     JObj(<<[k |-> "error", v |-> JStr("unauthorized123")]>>),
     JObj(<<[k |-> "data",
             v |-> JObj(<<[k |-> "id", v |-> JStr("12345")],
                          [k |-> "currency", v |-> JStr("USD")]>>)]>>)}

\* what the transport may answer
RoundTrips == {RoundTripErr} \cup {Response(st, b) : st \in {200, 399, 400, 401}, b \in Bodies}

\* what the transport may answer to a direct call of send
SendRoundTrips ==
    {rt \in RoundTrips :
        \/ ~rt.ok
        \/ rt.body \in {JBad, JObj(<<[k |-> "error", v |-> JStr("unauthorized123")]>>)}}

PairingCodes == {"12345"}

(***************************************************************************)
(* The state machine: a client is constructed, then its operations are     *)
(* called one after the other.  call, req and ret record the operation in  *)
(* progress from its call to the moment its caller has taken the result.   *)
(***************************************************************************)
Call(op, method, adds, payload, sig, arg, rt, before) ==
    [op |-> op, method |-> method, adds |-> adds, payload |-> payload, sig |-> sig,
     arg |-> arg, rt |-> rt, before |-> before, pm |-> EmptyPEM]

Ret(err, sent, resp, inv, val) ==
    [err |-> err, sent |-> sent, resp |-> resp, inv |-> inv, val |-> val,
     c |-> NilClient]

NoCall == Call("none", "", <<>>, GoNil, FALSE, "", RoundTripErr, "")

NoRet == Ret(NoErr, 0, NoResp, NoInvoice, "")

\* no operation is in progress
Idle == call.op = "none"

\* no PEM string under consideration
NoKeys ==
    [pc |-> "none", gen |-> FALSE, d |-> 0, pm |-> EmptyPEM, op |-> "",
     err |-> NoErr, pub |-> "", sin |-> "", sig |-> "",
     method |-> "", payload |-> GoNil, flag |-> FALSE, tok |-> "", sent |-> 0,
     resp |-> NoResp]

\* a goroutine that is in no call
NoThread ==
    [pc |-> "idle", payload |-> GoNil, sig |-> FALSE, t1 |-> "", t2 |-> "",
     req |-> NoReq, sent |-> 0, err |-> NoErr, new |-> ""]

\* a goroutine inside Client.pair among several: start is c.token as it was
\* when the first of them was called, first the word of c.token written first
NoPairer ==
    [pc |-> "idle", payload |-> GoNil, sig |-> FALSE, t1 |-> "", t2 |-> "",
     req |-> NoReq, sent |-> 0, err |-> NoErr, new |-> "", start |-> "",
     first |-> ""]

\* goroutines that call pair on one client
Pairers == {1, 2}

\* c.token is a string header of two words, the data pointer and the length;
\* ptr and len name the string each word was last taken from
Pairings(tok) == [th |-> [i \in Pairers |-> NoPairer], ptr |-> tok, len |-> tok]

Constructed ==
    \E hst \in {"http://test.com"}, tok \in InitTokens, ua \in UserAgents, pm \in PEMs, d \in InitScalars :
        \E n \in {NewClient(hst, tok, ua, pm, d)} :
            /\ n.err = NoErr
            /\ header = n.c.header
            /\ host = n.c.host
            /\ pem = n.c.pem
            /\ clientID = n.c.clientID
            /\ token = n.c.token
            /\ call = NoCall
            /\ req = NoReq
            /\ ret = NoRet
            /\ snd = NoThread
            /\ par = NoThread
            /\ kst = NoKeys

Init == Constructed /\ prs = Pairings("")

\* a direct call of Client.send
CallSend ==
    /\ Idle
    /\ \E method \in Methods, adds \in AddSeqs, payload \in Payloads, sig \in BOOLEAN,
          rt \in SendRoundTrips :
           \E s \in {send(header, host, pem, token, method, "/testing", Values(adds),
                        payload, sig, rt)} :
               /\ call' = Call("send", method, adds, payload, sig, "", rt, token)
               /\ req' = s.req
               /\ ret' = Ret(s.err, s.sent, s.resp, NoInvoice, "")
               /\ UNCHANGED <<header, host, pem, clientID, token, snd, par, kst, prs>>

\* a call of Client.pair
CallPair ==
    /\ Idle
    /\ \E code \in PairingCodes, rt \in RoundTrips :
           \E p \in {pair(header, host, pem, clientID, token, code, rt)} :
               /\ call' = Call("pair", "POST", <<>>, pairData(clientID, code), pairSig,
                               code, rt, token)
               /\ req' = p.req
               /\ ret' = Ret(p.err, p.sent, NoResp, NoInvoice, "")
               /\ token' = p.token
               /\ UNCHANGED <<header, host, pem, clientID, snd, par, kst, prs>>

\* a call of Client.CreateInvoice
CallCreateInvoice ==
    /\ Idle
    /\ \E orderID \in {"", "o1"}, rt \in RoundTrips :
           \E p \in {CreateInvoiceParams("USD", orderID)} :
           \E r \in {CreateInvoice(header, host, pem, token, p, rt)} :
               /\ call' = Call("CreateInvoice", "POST", <<>>, p, createInvoiceSig, "", rt, token)
               /\ req' = r.req
               /\ ret' = Ret(r.err, r.sent, NoResp, r.inv, "")
               /\ UNCHANGED <<header, host, pem, clientID, token, snd, par, kst, prs>>

\* a call of Client.Invoice
CallInvoice ==
    /\ Idle
    /\ \E id \in {"123"}, rt \in RoundTrips :
           \E r \in {Invoice(header, host, pem, token, id, rt)} :
               /\ call' = Call("Invoice", "GET", <<>>, GoNil, invoiceSig, id, rt, token)
               /\ req' = r.req
               /\ ret' = Ret(r.err, r.sent, NoResp, r.inv, "")
               /\ UNCHANGED <<header, host, pem, clientID, token, snd, par, kst, prs>>

\* a call of Client.Token (src/client.go:397-399)
CallToken ==
    /\ Idle
    /\ call' = Call("Token", "", <<>>, GoNil, FALSE, "", RoundTripErr, token)
    /\ req' = NoReq
    /\ ret' = Ret(NoErr, 0, NoResp, NoInvoice, token)
    /\ UNCHANGED <<header, host, pem, clientID, token, snd, par, kst, prs>>

\* a call of NewPairedClient: another client is constructed, for the same host
\* and with the same user agent, and paired; the call records the PEM string
\* given and the result the client returned
CallNewPairedClient ==
    /\ Idle
    /\ \E hst \in {host}, code \in PairingCodes, ua \in {header["User-Agent"]},
          pm \in PEMs, d \in InitScalars, rt \in RoundTrips :
           \E n \in {NewPairedClient(hst, code, ua, pm, d, rt)} :
               /\ call' = [Call("NewPairedClient", "POST", <<>>, GoNil, pairSig, code,
                                 rt, "") EXCEPT !.pm = pm]
               /\ req' = n.req
               /\ ret' = [Ret(n.err, n.sent, NoResp, NoInvoice, "") EXCEPT !.c = n.c]
               /\ UNCHANGED <<header, host, pem, clientID, token, snd, par, kst, prs>>

\* the caller takes the result of the operation
Return ==
    /\ ~Idle
    /\ call' = NoCall
    /\ req' = NoReq
    /\ ret' = NoRet
    /\ UNCHANGED <<header, host, pem, clientID, token, snd, par, kst, prs>>

Next ==
    \/ CallSend
    \/ CallPair
    \/ CallCreateInvoice
    \/ CallInvoice
    \/ CallToken
    \/ CallNewPairedClient
    \/ Return

Spec == Init /\ [][Next]_vars

(***************************************************************************)
(* Two goroutines on one client: one in Client.send, one in Client.pair.   *)
(* Client has no lock (src/client.go:311-318), so every read of c.token    *)
(* in send (lines 414, 420, 431, 433) and the write in pair (line 524)     *)
(* is a step of its own.  A string is two words; a read that falls into    *)
(* the write sees a mix of the old and the new value, written Torn.        *)
(***************************************************************************)
\* lines 410-429, t1 being c.token as read at line 414 and t2 as read at 420
bodyFromReads(t1, t2, d) ==
    IF d.err # NoErr THEN BodyErr(d.err)
    ELSE IF t1 # "" THEN mergeToken(t2, jsonUnmarshalMap(d.j))
    ELSE [err |-> NoErr, body |-> d.d, j |-> d.j]

\* lines 408-429 with the two reads of c.token
sendBodyReads(t1, t2, payload) ==
    IF payload = GoNil THEN NoBody ELSE bodyFromReads(t1, t2, jsonMarshal(payload))

\* lines 430-435, t1 being c.token as read at line 431 and t2 as read at 433
queryTokenReads(t1, t2, payload) ==
    IF payload = GoNil /\ t1 # "" THEN "token=" \o t2 ELSE ""

\* Client.send with the two reads of c.token
sendReads(hdr, hst, pm, t1, t2, method, endpoint, params, payload, sig, rt) ==
    sendBuilt(hdr, pm, method, hst \o endpoint, sig, sendBodyReads(t1, t2, payload),
              queryParams(queryTokenReads(t1, t2, payload), params), rt)

\* a string read while new is being written over old
Torn(old, new) == "torn(" \o old \o "," \o new \o ")"

\* answers of the transport to the concurrent calls
RaceRoundTrips ==
    {RoundTripErr,
     Response(200, JArr(<<TokenRecord("tok123")>>)),
     Response(200, JArr(<<JObj(<<>>)>>)),
     Response(401, JObj(<<[k |-> "error", v |-> JStr("unauthorized123")]>>))}

\* a goroutine calls send
SendCall ==
    /\ snd.pc = "idle"
    /\ \E payload \in {GoNil, CreateInvoiceParams("USD", "")}, sig \in BOOLEAN :
           snd' = [NoThread EXCEPT !.pc = "test", !.payload = payload, !.sig = sig]
    /\ UNCHANGED <<header, host, pem, clientID, token, call, req, ret, par, kst, prs>>

\* line 414 or 431: if c.token != ""
SendTest ==
    /\ snd.pc = "test"
    /\ snd' = [snd EXCEPT !.t1 = token, !.pc = IF token # "" THEN "write" ELSE "do"]
    /\ UNCHANGED <<header, host, pem, clientID, token, call, req, ret, par, kst, prs>>

\* line 420 or 433: c.token read again, for the body or the query
SendWrite ==
    /\ snd.pc = "write"
    /\ snd' = [snd EXCEPT !.t2 = token, !.pc = "do"]
    /\ UNCHANGED <<header, host, pem, clientID, token, call, req, ret, par, kst, prs>>

\* lines 437-492: the request is built, signed and handed to the transport
SendDo ==
    /\ snd.pc = "do"
    /\ \E rt \in RaceRoundTrips :
           \E s \in {sendReads(header, host, pem, snd.t1, snd.t2, "POST", "/testing",
                               Values(<<>>), snd.payload, snd.sig, rt)} :
               snd' = [snd EXCEPT !.pc = "done", !.req = s.req, !.sent = s.sent,
                                  !.err = s.err]
    /\ UNCHANGED <<header, host, pem, clientID, token, call, req, ret, par, kst, prs>>

\* send returns
SendReturn ==
    /\ snd.pc = "done"
    /\ snd' = NoThread
    /\ UNCHANGED <<header, host, pem, clientID, token, call, req, ret, par, kst, prs>>

\* a goroutine calls pair
PairCall ==
    /\ par.pc = "idle"
    /\ \E code \in PairingCodes :
           par' = [NoThread EXCEPT !.pc = "test", !.payload = pairData(clientID, code),
                                   !.sig = pairSig]
    /\ UNCHANGED <<header, host, pem, clientID, token, call, req, ret, snd, kst, prs>>

\* line 414 inside the send of pair
PairTest ==
    /\ par.pc = "test"
    /\ par' = [par EXCEPT !.t1 = token, !.pc = IF token # "" THEN "write" ELSE "do"]
    /\ UNCHANGED <<header, host, pem, clientID, token, call, req, ret, snd, kst, prs>>

\* line 420 inside the send of pair
PairWrite ==
    /\ par.pc = "write"
    /\ par' = [par EXCEPT !.t2 = token, !.pc = "do"]
    /\ UNCHANGED <<header, host, pem, clientID, token, call, req, ret, snd, kst, prs>>

\* lines 505-522: s is what send returned, i what decoding the records gave
pairDecoded(th, s, i) ==
    [th EXCEPT !.req = s.req, !.sent = s.sent,
               !.err = IF s.err # NoErr THEN s.err ELSE i.err,
               !.new = IF s.err # NoErr THEN "" ELSE i.token,
               !.pc = IF s.err # NoErr \/ i.err # NoErr THEN "done" ELSE "install"]

\* lines 505-522: the pairing request is sent and its answer decoded
PairDo ==
    /\ par.pc = "do"
    /\ \E rt \in RaceRoundTrips :
           \E s \in {sendReads(header, host, pem, par.t1, par.t2, "POST", "/tokens",
                               Values(<<>>), par.payload, par.sig, rt)} :
               par' = pairDecoded(par, s, pairInstall("", decodeTokens(s.resp.body)))
    /\ UNCHANGED <<header, host, pem, clientID, token, call, req, ret, snd, kst, prs>>

\* line 524: the first word of c.token is written
PairInstall ==
    /\ par.pc = "install"
    /\ token' = IF token = par.new THEN token ELSE Torn(token, par.new)
    /\ par' = [par EXCEPT !.pc = "installing"]
    /\ UNCHANGED <<header, host, pem, clientID, call, req, ret, snd, kst, prs>>

\* line 524: the second word of c.token is written
PairInstalled ==
    /\ par.pc = "installing"
    /\ token' = par.new
    /\ par' = [par EXCEPT !.pc = "done"]
    /\ UNCHANGED <<header, host, pem, clientID, call, req, ret, snd, kst, prs>>

\* pair returns
PairReturn ==
    /\ par.pc = "done"
    /\ par' = NoThread
    /\ UNCHANGED <<header, host, pem, clientID, token, call, req, ret, snd, kst, prs>>

NextConcurrent ==
    \/ SendCall
    \/ SendTest
    \/ SendWrite
    \/ SendDo
    \/ SendReturn
    \/ PairCall
    \/ PairTest
    \/ PairWrite
    \/ PairDo
    \/ PairInstall
    \/ PairInstalled
    \/ PairReturn

SpecConcurrent == Init /\ [][NextConcurrent]_vars

(***************************************************************************)
(* The key functions of src/crypto.go applied to PEM strings: those        *)
(* GeneratePEM writes and those handed in from outside.                    *)
(***************************************************************************)
\* PEM strings handed in from outside: no PEM block, a block that is not an
\* ecPrivateKey sequence, and ecPrivateKey sequences with the scalars 0, 2,
\* the order of the curve and the order plus one
KeyPEMs ==
    {PEM(FALSE, FALSE, 0), PEM(TRUE, FALSE, 0), PEM(TRUE, TRUE, 0), PEM(TRUE, TRUE, 2),
     PEM(TRUE, TRUE, CurveOrder), PEM(TRUE, TRUE, CurveOrder + 1)}

\* GeneratePEM is called and draws a scalar
KeyGenerate ==
    /\ kst.pc = "none"
    /\ \E d \in GenScalars :
           kst' = [NoKeys EXCEPT !.pc = "pem", !.gen = TRUE, !.d = d, !.pm = GeneratePEM(d)]
    /\ UNCHANGED <<header, host, pem, clientID, token, call, req, ret, snd, par, prs>>

\* a PEM string comes from outside
KeySupply ==
    /\ kst.pc = "none"
    /\ \E pm \in KeyPEMs : kst' = [NoKeys EXCEPT !.pc = "pem", !.pm = pm]
    /\ UNCHANGED <<header, host, pem, clientID, token, call, req, ret, snd, par, prs>>

\* privKey is called on the PEM string
KeyPrivKey ==
    /\ kst.pc = "pem"
    /\ \E r \in {privKey(kst.pm)} :
           kst' = [kst EXCEPT !.pc = "done", !.op = "privKey", !.err = r.err,
                            !.pub = pubKeyOf(r).pub]
    /\ UNCHANGED <<header, host, pem, clientID, token, call, req, ret, snd, par, prs>>

\* pubKey is called on the PEM string
KeyPubKey ==
    /\ kst.pc = "pem"
    /\ \E r \in {pubKey(kst.pm)} :
           kst' = [kst EXCEPT !.pc = "done", !.op = "pubKey", !.err = r.err, !.pub = r.pub]
    /\ UNCHANGED <<header, host, pem, clientID, token, call, req, ret, snd, par, prs>>

\* generateSIN is called on the PEM string
KeySIN ==
    /\ kst.pc = "pem"
    /\ \E r \in {generateSIN(kst.pm)} :
           kst' = [kst EXCEPT !.pc = "done", !.op = "generateSIN", !.err = r.err,
                            !.sin = r.sin]
    /\ UNCHANGED <<header, host, pem, clientID, token, call, req, ret, snd, par, prs>>

\* sign is called with the PEM string
KeySign ==
    /\ kst.pc = "pem"
    /\ \E r \in {sign(kst.pm, "http://test.com/testing")} :
           kst' = [kst EXCEPT !.pc = "done", !.op = "sign", !.err = r.err, !.sig = r.sig]
    /\ UNCHANGED <<header, host, pem, clientID, token, call, req, ret, snd, par, prs>>

\* NewClient is called with WithPEM of the PEM string
KeyNewClient ==
    /\ kst.pc = "pem"
    /\ \E n \in {NewClient(host, "", "", kst.pm, 1)} :
           kst' = [kst EXCEPT !.pc = "done", !.op = "NewClient", !.err = n.err,
                            !.sin = n.c.clientID]
    /\ UNCHANGED <<header, host, pem, clientID, token, call, req, ret, snd, par, prs>>

\* WithPEM of the PEM string is applied to the client (as Test_WithPEM does
\* to a Client) and send is called on it
KeySend ==
    /\ kst.pc = "pem"
    /\ \E method \in Methods, payload \in Payloads, sig \in BOOLEAN, rt \in {RoundTripErr, Response(200, JBad)} :
           \E s \in {send(header, host, kst.pm, token, method, "/testing", Values(<<>>),
                          payload, sig, rt)} :
               kst' = [kst EXCEPT !.pc = "done", !.op = "send", !.err = s.err,
                                  !.method = method, !.payload = payload, !.flag = sig,
                                  !.tok = token, !.sent = s.sent, !.resp = s.resp]
    /\ UNCHANGED <<header, host, pem, clientID, token, call, req, ret, snd, par, prs>>

\* the result is taken
KeyReturn ==
    /\ kst.pc = "done"
    /\ kst' = NoKeys
    /\ UNCHANGED <<header, host, pem, clientID, token, call, req, ret, snd, par, prs>>

NextKeys ==
    \/ KeyGenerate
    \/ KeySupply
    \/ KeyPrivKey
    \/ KeyPubKey
    \/ KeySIN
    \/ KeySign
    \/ KeyNewClient
    \/ KeySend
    \/ KeyReturn

SpecKeys == Init /\ [][NextKeys]_vars

(***************************************************************************)
(* Several goroutines inside Client.pair of one client.  Client has no     *)
(* lock (src/client.go:311-318), so line 524 is a plain store of a string  *)
(* header: two words, written one after the other in an order the build    *)
(* chooses, and the stores of two goroutines interleave.                   *)
(***************************************************************************)
\* what a read of c.token gives when its data pointer comes from string p and
\* its length from string l: p when the lengths agree, the empty string for
\* the length 0, otherwise len(l) bytes at the data of p
StringOf(p, l) ==
    IF Len(p) = Len(l) THEN p
    ELSE IF Len(l) = 0 THEN ""
    ELSE Torn(p, l)

\* answers the pairing endpoint gives to the racing pairings
PairsRoundTrips ==
    {RoundTripErr,
     Response(200, JArr(<<TokenRecord("tok123")>>)),
     Response(200, JArr(<<TokenRecord("tokA"), TokenRecord("tokB")>>)),
     Response(200, JArr(<<>>))}

InitPairs == Constructed /\ prs = Pairings(token)

\* goroutine i calls pair; start is the token c.token held when the first of
\* the pairings in flight was called
PairsCall(i) ==
    /\ prs.th[i].pc = "idle"
    /\ \E code \in PairingCodes :
           prs' = [prs EXCEPT !.th[i] =
                       [NoPairer EXCEPT !.pc = "test",
                                        !.payload = pairData(clientID, code),
                                        !.sig = pairSig,
                                        !.start =
                                            IF \E j \in Pairers : prs.th[j].pc # "idle"
                                                THEN prs.th[CHOOSE j \in Pairers :
                                                                prs.th[j].pc # "idle"].start
                                                ELSE token]]
    /\ UNCHANGED <<header, host, pem, clientID, token, call, req, ret, snd, par, kst>>

\* line 414 inside the send of pair
PairsTest(i) ==
    /\ prs.th[i].pc = "test"
    /\ prs' = [prs EXCEPT !.th[i].t1 = token,
                          !.th[i].pc = IF token # "" THEN "write" ELSE "do"]
    /\ UNCHANGED <<header, host, pem, clientID, token, call, req, ret, snd, par, kst>>

\* line 420 inside the send of pair
PairsWrite(i) ==
    /\ prs.th[i].pc = "write"
    /\ prs' = [prs EXCEPT !.th[i].t2 = token, !.th[i].pc = "do"]
    /\ UNCHANGED <<header, host, pem, clientID, token, call, req, ret, snd, par, kst>>

\* lines 505-522: the pairing request of goroutine i is sent and its answer decoded
PairsDo(i) ==
    /\ prs.th[i].pc = "do"
    /\ \E rt \in PairsRoundTrips :
           \E s \in {sendReads(header, host, pem, prs.th[i].t1, prs.th[i].t2, "POST",
                               "/tokens", Values(<<>>), prs.th[i].payload,
                               prs.th[i].sig, rt)} :
               prs' = [prs EXCEPT !.th[i] =
                           pairDecoded(prs.th[i], s,
                                       pairInstall("", decodeTokens(s.resp.body)))]
    /\ UNCHANGED <<header, host, pem, clientID, token, call, req, ret, snd, par, kst>>

\* line 524: goroutine i stores one word of c.token
PairsStore(i) ==
    /\ prs.th[i].pc = "install"
    /\ \E w \in {"ptr", "len"} :
           \E ws \in {IF w = "ptr" THEN [prs EXCEPT !.ptr = prs.th[i].new]
                                     ELSE [prs EXCEPT !.len = prs.th[i].new]} :
               /\ prs' = [ws EXCEPT !.th[i].first = w, !.th[i].pc = "installing"]
               /\ token' = StringOf(ws.ptr, ws.len)
    /\ UNCHANGED <<header, host, pem, clientID, call, req, ret, snd, par, kst>>

\* line 524: goroutine i stores the other word of c.token
PairsStored(i) ==
    /\ prs.th[i].pc = "installing"
    /\ \E w \in {"ptr", "len"} \ {prs.th[i].first} :
           \E ws \in {IF w = "ptr" THEN [prs EXCEPT !.ptr = prs.th[i].new]
                                     ELSE [prs EXCEPT !.len = prs.th[i].new]} :
               /\ prs' = [ws EXCEPT !.th[i].pc = "done"]
               /\ token' = StringOf(ws.ptr, ws.len)
    /\ UNCHANGED <<header, host, pem, clientID, call, req, ret, snd, par, kst>>

\* every pairing has returned and the goroutines are joined
PairsReturn ==
    /\ \A i \in Pairers : prs.th[i].pc = "done"
    /\ prs' = [prs EXCEPT !.th = [i \in Pairers |-> NoPairer]]
    /\ UNCHANGED <<header, host, pem, clientID, token, call, req, ret, snd, par, kst>>

NextPairs ==
    \/ \E i \in Pairers : PairsCall(i)
    \/ \E i \in Pairers : PairsTest(i)
    \/ \E i \in Pairers : PairsWrite(i)
    \/ \E i \in Pairers : PairsDo(i)
    \/ \E i \in Pairers : PairsStore(i)
    \/ \E i \in Pairers : PairsStored(i)
    \/ PairsReturn

SpecPairs == InitPairs /\ [][NextPairs]_vars

(***************************************************************************)
(* Vocabulary of the properties.                                           *)
(***************************************************************************)
\* the last operation handed a request to the transport
Dispatched == ~Idle /\ ret.sent = 1

\* the endpoint the operation in progress addresses
EndpointOf(c) ==
    CASE c.op = "pair" -> "/tokens"
      [] c.op = "CreateInvoice" -> "/invoices"
      [] c.op = "Invoice" -> "/invoices/" \o c.arg
      [] OTHER -> "/testing"

\* the parameters "k=v" joined by '&' in the order of the sequence ps
InOrder(ps) ==
    Join([i \in DOMAIN ps |-> QueryEscape(ps[i].k) \o "=" \o QueryEscape(ps[i].v)], "&")

RECURSIVE Flatten(_)
Flatten(ss) == IF ss = <<>> THEN <<>> ELSE ss[1] \o Flatten(Tail(ss))

\* the parameters ps sorted by key, those of one key in the order given
SortedByKey(ps) ==
    LET ks == SortedKeys({ps[i].k : i \in DOMAIN ps})
    IN  Flatten([i \in DOMAIN ks |-> SelectSeq(ps, LAMBDA a : a.k = ks[i])])

\* the query string made of the token tok, if any, and the parameter string ps
TokenThen(tok, ps) ==
    IF tok = "" THEN ps
    ELSE IF ps = "" THEN "token=" \o tok
    ELSE "token=" \o tok \o "&" \o ps

RECURSIVE SameJSON(_, _)
\* two JSON values denote the same data, whatever the order of the members
SameJSON(a, b) ==
    /\ a.kind = b.kind
    /\ CASE a.kind = "object" ->
                /\ Keys(a) = Keys(b)
                /\ \A k \in Keys(a) : SameJSON(Member(a, k), Member(b, k))
         [] a.kind = "array" ->
                /\ Len(a.elems) = Len(b.elems)
                /\ \A i \in DOMAIN a.elems : SameJSON(a.elems[i], b.elems[i])
         [] OTHER -> a.str = b.str

\* the request carries the header named h
Carries(h) == h \in DOMAIN req.header

C2_QueryWithoutPayload ==
    (Dispatched /\ call.payload = GoNil) =>
        LET ps == ValuesEncode(Values(call.adds))
        IN  /\ (call.before # "" /\ call.adds # <<>>)
                    => req.RawQuery = "token=" \o call.before \o "&" \o ps
            /\ (call.before # "" /\ call.adds = <<>>)
                    => req.RawQuery = "token=" \o call.before
            /\ (call.before = "") => req.RawQuery = ps
            /\ (call.before = "" /\ call.adds = <<>>) => req.RawQuery = ""
            /\ (call.before = "123" /\ call.adds = <<Add("q1", "v1"), Add("q2", "v2")>>)
                    => req.RawQuery = "token=123&q1=v1&q2=v2"

\* C2 witness: token 123 and q1=v1, q2=v2 were sent as token=123&q1=v1&q2=v2
C2_Witness ==
    /\ Dispatched /\ call.op = "send" /\ call.payload = GoNil
    /\ call.before = "123"
    /\ call.adds = <<Add("q1", "v1"), Add("q2", "v2")>>
    /\ req.RawQuery = "token=123&q1=v1&q2=v2"

(***************************************************************************)
(* C3.  With a payload the token travels in the body, never in the query.  *)
(***************************************************************************)
\* C3: for every request dispatched with a payload, the body is the text of a
\* JSON object that has the payload's members and a token member equal to the
\* installed token when a token is installed, it is exactly the serialized
\* payload when no token is installed, and the query string holds the encoded
\* caller parameters and nothing else
C3_BodyWithPayload ==
    (Dispatched /\ call.payload # GoNil) =>
        LET pl == Encode(call.payload)
        IN  /\ req.body = Text(req.j)
            /\ (call.before # "") =>
                    /\ req.j.kind = "object"
                    /\ Keys(req.j) = Keys(pl) \cup {"token"}
                    /\ Len(req.j.elems) = Cardinality(Keys(req.j))
                    /\ Member(req.j, "token") = JStr(call.before)
                    /\ \A k \in Keys(pl) \ {"token"} :
                            SameJSON(Member(req.j, k), Member(pl, k))
            /\ (call.before = "") => (req.j = pl /\ req.body = Text(pl))
            /\ req.RawQuery = ValuesEncode(Values(call.adds))
            /\ (call.adds = <<>>) => req.RawQuery = ""

\* C3 witness: an invoice creation payload sent with token 123 installed
C3_Witness ==
    /\ Dispatched /\ call.op = "send"
    /\ call.payload = CreateInvoiceParams("USD", "")
    /\ call.before = "123"
    /\ call.adds = <<Add("q1", "v1")>>
    /\ Member(req.j, "token") = JStr("123")
    /\ req.RawQuery = "q1=v1"

(***************************************************************************)
(* C4.  As claimed: a token member the payload defines itself wins over    *)
(* the client's token.  The code assigns m["token"] = c.token after         *)
(* decoding the payload, so the client's token always wins.                *)
(***************************************************************************)
\* C4 as claimed: with a token installed and a payload that defines a token
\* member, the dispatched body carries the payload's own token value
C4_PayloadTokenWins ==
    (Dispatched /\ call.before # "" /\ call.payload.t = "struct"
        /\ "token" \in Keys(Encode(call.payload)))
        => Member(req.j, "token") = Member(Encode(call.payload), "token")

\* C4 amended: with a token installed, the token member of every dispatched
\* body is the client's token, also when the payload defines a token member
\* of its own; the payload's own value is dispatched only when no token is
\* installed
C4_ClientTokenWins ==
    (Dispatched /\ call.payload.t = "struct") =>
        /\ (call.before # "") => Member(req.j, "token") = JStr(call.before)
        /\ (call.before = "" /\ "token" \in Keys(Encode(call.payload)))
                => Member(req.j, "token") = Member(Encode(call.payload), "token")
        /\ (call.before = "" /\ "token" \notin Keys(Encode(call.payload)))
                => "token" \notin Keys(req.j)

\* C4 witness: a payload with its own token sent with token 123 installed
C4_Witness ==
    /\ Dispatched /\ call.op = "send"
    /\ call.payload = OwnTokenPayload
    /\ call.before = "123"
    /\ Member(req.j, "token") = JStr("123")
    /\ req.body = "{\"currency\":\"USD\",\"token\":\"123\"}"

(***************************************************************************)
(* C5.  What is signed is what is sent.                                    *)
(***************************************************************************)
\* C5: for every request dispatched with the signature flag set, the string
\* that was signed is the URL of the dispatched request (host, path and, after
\* "?", the final query string with the token and the parameters) immediately
\* followed by the dispatched body, and the signature header is the signature
\* of exactly that string under the client's key
C5_SignedIsSent ==
    (Dispatched /\ call.sig) =>
        LET url == host \o EndpointOf(call)
                       \o (IF req.RawQuery = "" THEN "" ELSE "?" \o req.RawQuery)
        IN  /\ req.url = url
            /\ req.signed = url \o req.body
            /\ req.header["X-Signature"] = sign(pem, url \o req.body).sig
            /\ (call.payload = GoNil) => req.body = ""

\* C5 witness: a signed request with a token and a parameter in its query
C5_Witness ==
    /\ Dispatched /\ call.op = "send" /\ call.sig
    /\ call.payload = GoNil /\ call.before = "123"
    /\ call.adds = <<Add("q1", "v1")>>
    /\ req.signed = "http://test.com/testing?token=123&q1=v1"

(***************************************************************************)
(* C6.  The headers of a request.                                          *)
(***************************************************************************)
\* C6: every dispatched request carries Content-Type: application/json,
\* Accept: application/json, X-Accept-Version: 2.0.0 and the client's
\* User-Agent, which is btcpay-go unless WithUserAgent replaced it, and it
\* carries X-Identity (the compressed public key) and X-Signature if and only
\* if the signature flag is set
C6_Headers ==
    /\ header["User-Agent"] \in {"btcpay-go"} \cup (UserAgents \ {""})
    /\ Dispatched =>
        /\ req.header["Content-Type"] = "application/json"
        /\ req.header["Accept"] = "application/json"
        /\ req.header["X-Accept-Version"] = "2.0.0"
        /\ req.header["User-Agent"] = header["User-Agent"]
        /\ Carries("X-Identity") <=> call.sig
        /\ Carries("X-Signature") <=> call.sig
        /\ call.sig => /\ req.header["X-Identity"] = pubKey(pem).pub
                       /\ req.header["X-Signature"] # ""
        /\ DOMAIN req.header \subseteq
                {"Content-Type", "Accept", "X-Accept-Version", "User-Agent",
                 "X-Identity", "X-Signature"}

\* C6 witness: an unsigned request sent with the default user agent
C6_Witness ==
    /\ Dispatched /\ call.op = "send" /\ ~call.sig
    /\ req.header["User-Agent"] = "btcpay-go"
    /\ ~Carries("X-Identity") /\ ~Carries("X-Signature")

(***************************************************************************)
(* C7.  Pairing is unsigned, the invoice requests are signed.              *)
(***************************************************************************)
\* C7: every request dispatched by pair is POST /tokens without X-Identity and
\* X-Signature and with nothing signed, whatever the token of the client;
\* every request dispatched by CreateInvoice is POST /invoices and every
\* request dispatched by Invoice is GET /invoices/{id}, both with X-Identity
\* and X-Signature
C7_PairUnsigned ==
    Dispatched =>
        /\ (call.op = "pair") =>
                /\ req.method = "POST" /\ req.base = host \o "/tokens"
                /\ ~Carries("X-Identity") /\ ~Carries("X-Signature")
                /\ req.signed = ""
        /\ (call.op = "CreateInvoice") =>
                /\ req.method = "POST" /\ req.base = host \o "/invoices"
                /\ Carries("X-Identity") /\ Carries("X-Signature")
        /\ (call.op = "Invoice") =>
                /\ req.method = "GET" /\ req.base = host \o "/invoices/" \o call.arg
                /\ Carries("X-Identity") /\ Carries("X-Signature")

\* C7 witness: a pairing request sent unsigned by a client that holds a token
C7_Witness ==
    /\ Dispatched /\ call.op = "pair" /\ call.before = "tok123"
    /\ ~Carries("X-Signature")

(***************************************************************************)
(* C8, C9, C10.  The outcome of pairing.                                   *)
(***************************************************************************)
\* the transport answered the pairing request with a status below 400
PairAnswered == call.op = "pair" /\ call.rt.ok /\ call.rt.status < 400

\* the answer to the pairing request is a non-empty array of token records
TokenRecords ==
    /\ PairAnswered
    /\ call.rt.body.kind = "array"
    /\ Len(call.rt.body.elems) > 0
    /\ \A i \in DOMAIN call.rt.body.elems : call.rt.body.elems[i].kind = "object"

\* C8: when the answer to the pairing request is a non-empty JSON array of
\* token records, pair returns no error and the client's token is the token
\* value of the first record, whatever the token was before and whatever the
\* later records hold
C8_FirstToken ==
    TokenRecords =>
        /\ ret.err = NoErr
        /\ token = StringMember(call.rt.body.elems[1], "token")

\* C8 witness: two records answered to a client holding token 123; the first
\* one is installed
C8_Witness ==
    /\ TokenRecords /\ call.before = "123"
    /\ Len(call.rt.body.elems) = 2
    /\ token = "tokA"

\* C9: pair returns the error "token data not returned" when the answer is the
\* empty JSON array, and only then: a body that is not the expected array and
\* a transport failure return other errors
C9_EmptyArrayError ==
    (call.op = "pair") =>
        /\ (PairAnswered /\ call.rt.body = JArr(<<>>))
                => ret.err = Err("errors.errorString", "token data not returned")
        /\ (ret.err.msg = "token data not returned")
                => (PairAnswered /\ call.rt.body = JArr(<<>>))
        /\ (~call.rt.ok) => ret.err.type = "url.Error"
        /\ (PairAnswered /\ call.rt.body.kind # "array")
                => (ret.err # NoErr /\ ret.err.msg # "token data not returned")

\* C9 witness: the empty array answered with status 200
C9_Witness ==
    /\ PairAnswered /\ call.rt.status = 200 /\ call.rt.body = JArr(<<>>)
    /\ ret.err.msg = "token data not returned"

\* C10: whenever pair returns an error, the client's token is the token it
\* held when pair was called
C10_FailedPairKeepsToken ==
    (call.op = "pair" /\ ret.err # NoErr) => token = call.before

\* C10 witness: the empty array answered to a client holding token 123
C10_Witness ==
    /\ call.op = "pair" /\ ret.err # NoErr
    /\ call.rt.ok /\ call.rt.body = JArr(<<>>)
    /\ call.before = "123" /\ token = "123"

(***************************************************************************)
(* C11.  send classifies the answer of the transport by its status.        *)
(***************************************************************************)
\* the transport answered the direct call of send
SendAnswered == Dispatched /\ call.op = "send" /\ call.rt.ok

\* the message "[<status>] <error>"
StatusMessage(status, e) == "[" \o ToString(status) \o "] " \o e

\* C11: for every answer of the transport to send, a status below 400 returns
\* the response as it came and no error; a status of 400 or more returns no
\* response and an error, whose message is exactly "[<status>] <error>" when
\* the body is an object with a string member error, and which is the error
\* of the decoder, not a "[<status>] ..." message, when the body is malformed
C11_StatusClassified ==
    SendAnswered =>
        LET st == call.rt.status
            b == call.rt.body
        IN  /\ (st < 400) =>
                    /\ ret.err = NoErr
                    /\ ret.resp = [status |-> st, body |-> b]
            /\ (st >= 400) =>
                    /\ ret.resp = NoResp
                    /\ ret.err # NoErr
                    /\ (b.kind = "object" /\ "error" \in Keys(b)
                            /\ Member(b, "error").kind = "string")
                          => ret.err.msg = StatusMessage(st, Member(b, "error").str)
                    /\ (b.kind = "malformed") =>
                          /\ ret.err = syntaxErr(b)
                          /\ ret.err.msg \notin
                                {StatusMessage(st, e) : e \in {"", "unauthorized123"}}

\* C11 witness: status 400 with the body {"error":"unauthorized123"}
C11_Witness ==
    /\ SendAnswered /\ call.rt.status = 400
    /\ ret.resp = NoResp
    /\ ret.err.msg = "[400] unauthorized123"

(***************************************************************************)
(* C12.  No request is retried.  ret.sent counts the requests the call     *)
(* handed to the transport.                                                *)
(***************************************************************************)
\* the operation in progress is one that goes through send
Sending == call.op \in {"send", "pair", "CreateInvoice", "Invoice"}

\* the request of the operation in progress can be constructed: the payload
\* serializes, takes the token, the method is valid and the key signs
Constructible ==
    /\ sendBody(call.before, call.payload).err = NoErr
    /\ ValidMethod(call.method)
    /\ call.sig => privKey(pem).err = NoErr

\* C12: every call of send, pair, CreateInvoice and Invoice hands at most one
\* request to the transport, exactly one when the request can be constructed,
\* and returns an error to its caller when the transport fails, when the
\* status is 400 or more, when the body of the answer is malformed and when
\* the request cannot be constructed
C12_NoRetry ==
    Sending =>
        /\ ret.sent \in {0, 1}
        /\ Constructible => ret.sent = 1
        /\ ~Constructible => ret.err # NoErr
        /\ (ret.sent = 1 /\ ~call.rt.ok) => ret.err.type = "url.Error"
        /\ (ret.sent = 1 /\ call.rt.ok /\ call.rt.status >= 400) => ret.err # NoErr
        /\ (ret.sent = 1 /\ call.rt.ok /\ call.rt.body.kind = "malformed"
                /\ call.op # "send") => ret.err # NoErr

\* C12 witness: an invoice retrieval whose request the transport failed to
\* deliver; one request was dispatched and the failure returned
C12_Witness ==
    /\ call.op = "Invoice" /\ ~call.rt.ok
    /\ ret.sent = 1 /\ ret.err.type = "url.Error"

(***************************************************************************)
(* C13.  A send running next to a pair.  The claim rests on a lock that    *)
(* the Client does not have.                                               *)
(***************************************************************************)
\* the request of goroutine th carries exactly the token tok: in the query
\* without a payload, as the token member of the body with one
CarriesToken(th, tok) ==
    IF th.payload = GoNil
    THEN th.req.RawQuery = queryToken(tok, GoNil)
    ELSE IF tok = "" THEN th.req.j = Encode(th.payload)
    ELSE Member(th.req.j, "token") = JStr(tok)

\* C13 as claimed: in every interleaving of a send with a concurrent pair,
\* the token a dispatched request carries in its query or body is the token
\* value its construction tested for presence
C13_OneTokenValue ==
    /\ (snd.pc = "done" /\ snd.sent = 1) => CarriesToken(snd, snd.t1)
    /\ (par.pc = "done" /\ par.sent = 1) => CarriesToken(par, par.t1)

(***************************************************************************)
(* C14.  What the operations leave alone.                                  *)
(***************************************************************************)
\* C14: no step changes the host or the fixed headers; a step that changes
\* the token is a pair that returns no error on a non-empty array of token
\* records; send, CreateInvoice, Invoice and Token leave the token as it was,
\* whether they succeed or fail
C14_TokenFrame ==
    [][/\ host' = host
       /\ header' = header
       /\ (token' # token) => (call'.op = "pair" /\ ret'.err = NoErr /\ TokenRecords')
       /\ (call'.op \in {"send", "CreateInvoice", "Invoice", "Token"}) => token' = token
      ]_vars

\* C14 witness: an invoice creation answered with status 401 by a client that
\* was paired before; the token installed by the pairing is still there
C14_Witness ==
    /\ call.op = "CreateInvoice" /\ ret.sent = 1 /\ ret.err.msg = "[401] unauthorized123"
    /\ call.before = "tok123" /\ token = "tok123"

(***************************************************************************)
(* C15.  The PEM string GeneratePEM writes decodes to the key it encodes.  *)
(***************************************************************************)
\* a key function has been applied to a PEM string GeneratePEM wrote
Generated(op) == kst.pc = "done" /\ kst.gen /\ kst.op = op

\* C15: for every scalar GeneratePEM can draw, privKey and pubKey of the PEM
\* string it writes return no error and the compressed public key of the
\* generated key, and generateSIN returns the SIN of that public key
C15_RoundTrip ==
    LET pub == SerializeCompressed(NewPrivateKey(kst.d))
    IN  /\ (Generated("privKey") \/ Generated("pubKey")) =>
                (kst.err = NoErr /\ kst.pub = pub)
        /\ Generated("generateSIN") => (kst.err = NoErr /\ kst.sin = sinOf(pub))

\* C15 witness: the key of a scalar of two bytes, generated and decoded
C15_Witness ==
    /\ Generated("pubKey") /\ kst.d = 256
    /\ kst.pm.der.PrivateKey = <<1, 0>>
    /\ kst.pub = "pub256"

(***************************************************************************)
(* C16.  When decoding a PEM string fails.  btcec.PrivKeyFromBytes returns *)
(* a key for any bytes (the value privKey drops at line 139 is the public  *)
(* key, not an error), so a scalar without a valid point is accepted.      *)
(***************************************************************************)
\* the PEM string has no PEM block
NoEnvelope(pm) == ~pm.block

\* the block of the PEM string is not an ecPrivateKey sequence
BadStructure(pm) == pm.block /\ pm.der.shape # "ecPrivateKey"

\* the scalar of the PEM string has no valid point: its multiple of the base
\* point is the point at infinity
InvalidScalar(pm) ==
    /\ pm.block /\ pm.der.shape = "ecPrivateKey"
    /\ SetBytes(pm.der.PrivateKey) % CurveOrder = 0

\* C16 as claimed: privKey, pubKey, generateSIN, sign and NewClient with
\* WithPEM return an error when the PEM string has no PEM block, when its
\* block is not the expected ASN.1 sequence and when its scalar has no valid
\* point on the curve, and return no error only when none of the three holds
C16_DecodeFails ==
    (kst.pc = "done" /\ kst.op \in {"privKey", "pubKey", "generateSIN", "sign", "NewClient"}) =>
        (kst.err # NoErr <=>
            (NoEnvelope(kst.pm) \/ BadStructure(kst.pm) \/ InvalidScalar(kst.pm)))

(***************************************************************************)
(* C17.  The derivation of the SIN.  Digests are terms, so two digests are *)
(* equal only if they are digests of the same value.                       *)
(***************************************************************************)
\* the digest of v under the hash function named h
Digest(h, v) == h \o "(" \o v \o ")"

\* the SIN as specified: Base58 of the header 0F02 + RIPEMD160(SHA256(pub))
\* followed by the first 4 bytes of SHA256(SHA256(header))
SpecifiedSIN(pub) ==
    LET hdr == "0F02" \o Digest("ripemd160", Digest("sha256", pub))
    IN  "base58(" \o hdr
            \o "first8(" \o Digest("sha256", Digest("sha256", hdr)) \o ")" \o ")"

\* C17: whenever generateSIN returns a SIN, it is Base58 of the header, which
\* is 0F02 followed by RIPEMD160 of SHA256 of the compressed public key, and
\* of the checksum, which is the first 4 bytes of SHA256 of SHA256 of the
\* header; a second call on the same PEM string returns the same SIN, and the
\* key of every scalar with another compressed public key has another SIN
C17_SIN ==
    (kst.pc = "done" /\ kst.op = "generateSIN" /\ kst.err = NoErr) =>
        LET pub == pubKey(kst.pm).pub
        IN  /\ kst.sin = SpecifiedSIN(pub)
            /\ generateSIN(kst.pm) = [err |-> NoErr, sin |-> kst.sin]
            /\ \A d \in GenScalars :
                    LET other == generateSIN(GeneratePEM(d))
                    IN  /\ (pubKey(GeneratePEM(d)).pub # pub) => other.sin # kst.sin
                        /\ (pubKey(GeneratePEM(d)).pub = pub) => other.sin = kst.sin

\* C17 witness: the SIN of the key with the scalar 2
C17_Witness ==
    /\ kst.pc = "done" /\ kst.op = "generateSIN" /\ kst.pm = PEM(TRUE, TRUE, 2)
    /\ kst.sin = "base58(0F02ripemd160(sha256(pub2))"
                    \o "first8(sha256(sha256(0F02ripemd160(sha256(pub2))))))"

(***************************************************************************)
(* C18.  NewPairedClient returns a paired client or none.                  *)
(***************************************************************************)
\* the answer to the request of NewPairedClient is a status below 400 with a
\* non-empty array of token records
PairedAnswer ==
    /\ call.rt.ok /\ call.rt.status < 400
    /\ call.rt.body.kind = "array"
    /\ Len(call.rt.body.elems) > 0
    /\ \A i \in DOMAIN call.rt.body.elems : call.rt.body.elems[i].kind = "object"

\* the PEM string given to NewPairedClient is none, or one privKey decodes
Constructs == call.pm.empty \/ privKey(call.pm).err = NoErr

\* C18: NewPairedClient returns the nil client together with an error when
\* the client cannot be constructed (and then sends nothing) and when the
\* pairing fails; otherwise it returns no error and a client whose token is
\* the token of the first record of the answer; the client is nil exactly
\* when an error is returned
C18_PairedOrNil ==
    (call.op = "NewPairedClient") =>
        /\ ret.c.nil <=> ret.err # NoErr
        /\ ~Constructs => (ret.err # NoErr /\ ret.c = NilClient /\ ret.sent = 0)
        /\ (Constructs /\ ~PairedAnswer) => (ret.err # NoErr /\ ret.c = NilClient)
        /\ (Constructs /\ PairedAnswer) =>
                /\ ret.err = NoErr
                /\ ~ret.c.nil
                /\ ret.c.token = StringMember(call.rt.body.elems[1], "token")
                /\ ret.c.host = host
                /\ ret.c.clientID = generateSIN(ret.c.pem).sin

\* C18 witness: the pairing of the new client was answered with status 401;
\* no client is returned
C18_Witness ==
    /\ call.op = "NewPairedClient" /\ Constructs
    /\ call.rt.ok /\ call.rt.status = 401 /\ ret.sent = 1
    /\ ret.err # NoErr /\ ret.c = NilClient

(***************************************************************************)
(* C19.  pair installs tokens[0].Token whatever it is: a record without a  *)
(* token member, or with an empty one, installs the empty token.           *)
(***************************************************************************)
\* C19 as claimed: after every pair that returns no error the client's token
\* is not empty, and whatever operation is called, a client that had a token
\* when it was called has a token afterwards
C19_StaysPaired ==
    /\ (call.op = "pair" /\ ret.err = NoErr) => token # ""
    /\ (Sending /\ call.before # "") => token # ""

(***************************************************************************)
(* C20.  pair hands its data to send as the payload, and send adds the     *)
(* token member to every payload when a token is installed.                *)
(***************************************************************************)
\* C20 as claimed: the body of every request dispatched by pair is the JSON
\* object with exactly the members id, the SIN of the client, and
\* pairingCode, the code given, whether or not a token is installed
C20_PairingBody ==
    (Dispatched /\ call.op = "pair") =>
        /\ req.j.kind = "object"
        /\ Keys(req.j) = {"id", "pairingCode"}
        /\ Member(req.j, "id") = JStr(clientID)
        /\ Member(req.j, "pairingCode") = JStr(call.arg)

(***************************************************************************)
(* C21.  A request that cannot be constructed is not sent.                 *)
(***************************************************************************)
\* send has been called on a client with the PEM string under consideration
SendTried == kst.pc = "done" /\ kst.op = "send"

\* the payload is a value json.Marshal rejects
Unserializable == kst.payload.t = "func"

\* a token is installed and the payload serializes to JSON that is no object
TokenIntoNonObject == kst.tok # "" /\ kst.payload.t \in {"int", "string"}

\* the signature flag is set and the PEM string has no key to sign with
NoSigningKey == kst.flag /\ (NoEnvelope(kst.pm) \/ BadStructure(kst.pm))

\* C21: whenever send is called with a payload that cannot be serialized,
\* with a token installed and a payload that serializes to JSON that is not an
\* object, with an invalid HTTP method, or with the signature flag set and a
\* PEM string that cannot be decoded, it returns no response and an error,
\* hands nothing to the transport and leaves the token as it was; when none
\* of these holds and the key of the PEM string is a valid one, the request is
\* handed to the transport
C21_NotConstructedNotSent ==
    SendTried =>
        /\ (Unserializable \/ TokenIntoNonObject \/ ~ValidMethod(kst.method)
                \/ NoSigningKey) =>
                /\ kst.err # NoErr
                /\ kst.resp = NoResp
                /\ kst.sent = 0
                /\ token = kst.tok
        /\ (~Unserializable /\ ~TokenIntoNonObject /\ ValidMethod(kst.method)
                /\ ~NoSigningKey /\ ~InvalidScalar(kst.pm)) => kst.sent = 1

\* C21 witness: a signed send on a client whose PEM string has no PEM block,
\* with a valid method and no payload; nothing is sent
C21_Witness ==
    /\ SendTried /\ kst.flag /\ NoEnvelope(kst.pm)
    /\ kst.method = "POST" /\ kst.payload = GoNil
    /\ kst.err.msg = "private key not found" /\ kst.sent = 0

(***************************************************************************)
(* C22.  The key of a client.                                              *)
(***************************************************************************)
\* the PEM string p and the SIN id are those of one decodable key
OneKey(p, id) == privKey(p).err = NoErr /\ id = generateSIN(p).sin

\* the PEM strings GeneratePEM can write
GeneratedPEMs == {GeneratePEM(d) : d \in GenScalars}

\* the client's PEM string and SIN are those of one key, and the requests of
\* the operation in progress assert that key
KeyIdentity ==
    /\ OneKey(pem, clientID)
    /\ pem \in (PEMs \ {EmptyPEM}) \cup GeneratedPEMs
    /\ (Dispatched /\ call.op = "pair") => Member(req.j, "id") = JStr(generateSIN(pem).sin)
    /\ (Dispatched /\ call.sig /\ Sending) => req.header["X-Identity"] = pubKey(pem).pub
    /\ (call.op = "NewPairedClient" /\ ~ret.c.nil) =>
            /\ OneKey(ret.c.pem, ret.c.clientID)
            /\ ~call.pm.empty => ret.c.pem = call.pm
            /\ call.pm.empty => ret.c.pem \in GeneratedPEMs
            /\ Member(req.j, "id") = JStr(generateSIN(ret.c.pem).sin)

\* C22: in every state the client's PEM string is one given to WithPEM or one
\* GeneratePEM wrote, it decodes and clientID is the SIN derived from it; no
\* call of pair, send, CreateInvoice or Invoice changes the PEM string or
\* clientID; the id of every pairing request is the SIN of that PEM string
\* and X-Identity of every signed request is its compressed public key
C22_KeyFixed ==
    [][/\ KeyIdentity
       /\ KeyIdentity'
       /\ pem' = pem
       /\ clientID' = clientID
      ]_vars

\* C22 witness: a client constructed with WithPEM of the key with the scalar 2
\* that was paired and then sent a signed invoice request under that key
C22_Witness ==
    /\ pem = PEM(TRUE, TRUE, 2)
    /\ clientID = SpecifiedSIN("pub2")
    /\ call.op = "CreateInvoice" /\ Dispatched /\ call.before = "tok123"
    /\ req.header["X-Identity"] = "pub2"

\* every goroutine that called pair has returned and none was called again
AllPairsReturned == \A i \in Pairers : prs.th[i].pc = "done"

\* the pairings that returned no error
Succeeded == {i \in Pairers : prs.th[i].pc = "done" /\ prs.th[i].err = NoErr}

\* C23: once all of two concurrent Client.pair calls on one client have
\* returned, c.token is the first-record token of one of the pairings that
\* succeeded, or the token the client had before them if none succeeded; a
\* failed pairing leaves the token of a successful one in place.
C23_LastInstallWins ==
    AllPairsReturned =>
        IF Succeeded # {}
            THEN token \in {prs.th[i].new : i \in Succeeded}
            ELSE \A i \in Pairers : token = prs.th[i].start

====
